---- MODULE Spec2Model ----
(***************************************************************************)
(* The home-loan calculator of src/main.py: the amortization loop           *)
(* (calculate_loan_schedule), the prepayment comparison                     *)
(* (calculate_prepayment_impact) and the script that calls them and         *)
(* derives the break-even month, the return on the prepayment and the       *)
(* recommendation.                                                          *)
(*                                                                          *)
(* Amounts of money are exact: an amount is kept as an integer number of    *)
(* 1/Scale currency units.  The annual rates are multiples of 300 (monthly  *)
(* rate a multiple of 1/4) and Scale is 4^Horizon, so every product         *)
(* balance * monthly_rate of a run of at most Horizon months is a whole     *)
(* number of 1/Scale units (ExactArithmetic states it).  On such dyadic     *)
(* values the binary floating point of the program is exact as well.        *)
(***************************************************************************)
EXTENDS Integers, Sequences, FiniteSets, TLC

\* The horizon the script passes as max_months (360 in the source, lines
\* 142, 143 and 316), scaled down.
Horizon == 4

Percent == 100
MonthsPerYear == 12
NewRateMin == 5
NewRateMaxAbove == 2

RECURSIVE Pow(_, _)
Pow(b, n) == IF n = 0 THEN 1 ELSE b * Pow(b, n - 1)

Scale == Pow(4, Horizon)
Money(units) == units * Scale

Min(a, b) == IF a <= b THEN a ELSE b

\* Input values of the model
PrincipalUnits == {0, 8, 16}
PaymentUnits == {2, 5, 12}
FeeUnits == {0, 1, 3, 10}
PrepayUnits == {0, 2, 8, 16}
FeePercents == {0, 100}
ScriptRates == {300, 600}
\* Arguments of a call of calculate_prepayment_impact on its own: the rates
\* are tried in this order.
UnitPrincipalUnits == {8, 16}
UnitRates == <<300, 600, 0, -300>>
UnitPaymentUnits == {2, 5, 12}
UnitPrepayUnits == {0, 4, 8, 16}

\* A Python name that is not bound yet is <<>>, a bound one is <<value>>.
Unbound == <<>>
Bound(v) == <<v>>
ValueOf(x) == x[1]

VARIABLES
    pc,
    current_principal, current_rate, monthly_payment, new_rate,
    rewriting_fee, prepayment_amount, prepayment_fee_percent,
    call, impact, errors, fault,
    current_schedule, new_rate_schedule,
    tab1, tab2, monthly_interest_diff, breakeven_months, breakeven_report, vline,
    prepayment_impact, roi, recommendation

inputVars == <<current_principal, current_rate, monthly_payment, new_rate,
               rewriting_fee, prepayment_amount, prepayment_fee_percent>>
scheduleVars == <<current_schedule, new_rate_schedule>>
tab2Vars == <<tab2, monthly_interest_diff, breakeven_months, breakeven_report, vline>>
tab3Vars == <<prepayment_impact, roi, recommendation>>
vars == <<pc, inputVars, call, impact, errors, fault, scheduleVars, tab1, tab2Vars, tab3Vars>>

(***************************************************************************)
(* pandas: pd.DataFrame(schedule) of a list of dicts has the dicts' keys    *)
(* as columns; of an empty list it has no columns, and df[col] raises       *)
(* KeyError.                                                                *)
(***************************************************************************)
DataFrame(schedule) == schedule
Columns(df) == IF df = <<>> THEN {} ELSE DOMAIN df[1]
HasColumn(df, col) == col \in Columns(df)

RECURSIVE SeqSum(_)
SeqSum(s) == IF s = <<>> THEN 0 ELSE s[1] + SeqSum(Tail(s))

InterestColumn(df) == [i \in 1..Len(df) |-> df[i].Interest]
PaymentColumn(df) == [i \in 1..Len(df) |-> df[i].Payment]
PrincipalColumn(df) == [i \in 1..Len(df) |-> df[i].Principal]

(***************************************************************************)
(* calculate_loan_schedule                                                  *)
(***************************************************************************)
\* balance * monthly_rate, with monthly_rate = annual_rate / 100 / 12
Interest(balance, annual_rate) == (balance * annual_rate) \div (Percent * MonthsPerYear)

\* Line 93 with interest charged on the interest paid so far as well
InterestPaymentCompounded(c) == Interest(c.balance + c.total_interest, c.annual_rate)

\* Line 93
InterestPayment(c) == Interest(c.balance, c.annual_rate)

\* Line 94 without the interest taken off the payment
PrincipalPaymentGross(c) == Min(c.monthly_payment, c.balance)

\* Line 94 without the cap at the balance
PrincipalPaymentUncapped(c) == c.monthly_payment - InterestPayment(c)

\* Line 94
PrincipalPayment(c) == Min(c.monthly_payment - InterestPayment(c), c.balance)

\* Line 91 without its bound on the months
LoopConditionUnbounded(c) == c.balance > 0

\* Line 91 stopping one month short of max_months
LoopConditionShort(c) == c.balance > 0 /\ c.month + 1 < c.max_months

\* Line 91
LoopCondition(c) == c.balance > 0 /\ c.month < c.max_months

\* Line 96 with < for <=
InsufficientStrict(principal_payment) == principal_payment < 0

\* Line 96
Insufficient(principal_payment) == principal_payment <= 0

\* Line 105 without the trimmed payment of the month that pays the loan off
EntryPaymentFull(c, balance, principal_payment, interest_payment) == c.monthly_payment

\* Line 105
EntryPayment(c, balance, principal_payment, interest_payment) ==
    IF balance > 0 THEN c.monthly_payment ELSE principal_payment + interest_payment

NewCall(principal, annual_rate, payment, max_months, dest, ret) ==
    [principal |-> principal, annual_rate |-> annual_rate,
     monthly_payment |-> payment, max_months |-> max_months,
     balance |-> principal, total_interest |-> 0, month |-> 0,
     schedule |-> <<>>, state |-> "ACCUMULATING", dest |-> dest, ret |-> ret]

NoCall == NewCall(0, 0, 0, 0, "none", "none")

InCall == pc = "calculate_loan_schedule"

\* Lines 92-98: the payment does not cover the month's interest.  errors
\* holds the amounts that st.error puts into its message (the interest is
\* shown there to two decimals).
LoopStall ==
    /\ InCall /\ call.state = "ACCUMULATING" /\ LoopCondition(call)
    /\ Insufficient(PrincipalPayment(call))
    /\ call' = [call EXCEPT !.month = @ + 1, !.state = "STALLED"]
    /\ errors' = Append(errors, [monthly_payment |-> call.monthly_payment,
                                 minimum |-> InterestPayment(call),
                                 month |-> call.month + 1])
    /\ UNCHANGED <<pc, inputVars, impact, fault, scheduleVars, tab1, tab2Vars, tab3Vars>>

\* Lines 92-113: one month is paid and its entry appended.
LoopAppend ==
    /\ InCall /\ call.state = "ACCUMULATING" /\ LoopCondition(call)
    /\ ~Insufficient(PrincipalPayment(call))
    /\ LET interest_payment == InterestPayment(call)
           principal_payment == PrincipalPayment(call)
           balance == call.balance - principal_payment
           total_interest == call.total_interest + interest_payment
           entry == [Month |-> call.month + 1,
                     Payment |-> EntryPayment(call, balance, principal_payment, interest_payment),
                     Principal |-> principal_payment,
                     Interest |-> interest_payment,
                     Balance |-> balance,
                     TotalInterest |-> total_interest]
       IN call' = [call EXCEPT !.month = @ + 1,
                               !.balance = balance,
                               !.total_interest = total_interest,
                               !.schedule = Append(@, entry),
                               !.state = IF balance <= 0 THEN "PAID_OFF" ELSE "ACCUMULATING"]
    /\ UNCHANGED <<pc, inputVars, impact, errors, fault, scheduleVars, tab1, tab2Vars, tab3Vars>>

\* The loop is over: a break (lines 98, 113) or the while condition is false.
LoopDone(c) == c.state \in {"PAID_OFF", "STALLED"} \/ ~LoopCondition(c)

\* Line 115: the schedule goes to the caller's variable.
Return ==
    /\ InCall /\ LoopDone(call)
    /\ pc' = call.ret
    /\ UNCHANGED call
    /\ current_schedule' = IF call.dest = "current_schedule"
                           THEN DataFrame(call.schedule) ELSE current_schedule
    /\ new_rate_schedule' = IF call.dest = "new_rate_schedule"
                            THEN DataFrame(call.schedule) ELSE new_rate_schedule
    /\ impact' = IF call.dest = "orig_schedule"
                 THEN [impact EXCEPT !.orig_schedule = DataFrame(call.schedule)]
                 ELSE IF call.dest = "new_schedule"
                 THEN [impact EXCEPT !.new_schedule = DataFrame(call.schedule)]
                 ELSE impact
    /\ UNCHANGED <<inputVars, errors, fault, tab1, tab2Vars, tab3Vars>>

(***************************************************************************)
(* calculate_prepayment_impact                                              *)
(***************************************************************************)
NewImpact(principal, annual_rate, payment, prepay_amount, max_months, ret) ==
    [principal |-> principal, annual_rate |-> annual_rate,
     monthly_payment |-> payment, prepay_amount |-> prepay_amount,
     max_months |-> max_months, orig_schedule |-> <<>>, new_schedule |-> <<>>,
     ret |-> ret]

NoImpact == NewImpact(0, 0, 0, 0, 0, "none")

Fault(line, error) == Bound([line |-> line, error |-> error])

\* Line 120
ImpactOriginal ==
    /\ pc = "L120"
    /\ call' = NewCall(impact.principal, impact.annual_rate, impact.monthly_payment,
                       impact.max_months, "orig_schedule", "L124")
    /\ pc' = "calculate_loan_schedule"
    /\ UNCHANGED <<inputVars, impact, errors, fault, scheduleVars, tab1, tab2Vars, tab3Vars>>

\* Line 123 with the prepayment added to the principal
NewPrincipalAdded(principal, prepay_amount) == principal + prepay_amount

\* Line 123
NewPrincipal(principal, prepay_amount) == principal - prepay_amount

\* Lines 123-124
ImpactNew ==
    /\ pc = "L124"
    /\ LET new_principal == NewPrincipal(impact.principal, impact.prepay_amount)
       IN call' = NewCall(new_principal, impact.annual_rate, impact.monthly_payment,
                          impact.max_months, "new_schedule", "L127")
    /\ pc' = "calculate_loan_schedule"
    /\ UNCHANGED <<inputVars, impact, errors, fault, scheduleVars, tab1, tab2Vars, tab3Vars>>

ImpactResult(orig_schedule, new_schedule) ==
    LET orig_total_interest == SeqSum(InterestColumn(orig_schedule))
        new_total_interest == SeqSum(InterestColumn(new_schedule))
    IN [OriginalTotalInterest |-> orig_total_interest,
        NewTotalInterest |-> new_total_interest,
        InterestSavings |-> orig_total_interest - new_total_interest,
        MonthsSaved |-> Len(orig_schedule) - Len(new_schedule),
        OriginalSchedule |-> orig_schedule,
        NewSchedule |-> new_schedule]

\* Lines 127-139
ImpactSavings ==
    /\ pc = "L127"
    /\ IF ~HasColumn(impact.orig_schedule, "Interest")
       THEN /\ pc' = "faulted"
            /\ fault' = Fault(127, "KeyError")
            /\ UNCHANGED prepayment_impact
       ELSE IF ~HasColumn(impact.new_schedule, "Interest")
       THEN /\ pc' = "faulted"
            /\ fault' = Fault(128, "KeyError")
            /\ UNCHANGED prepayment_impact
       ELSE /\ pc' = impact.ret
            /\ prepayment_impact' = Bound(ImpactResult(impact.orig_schedule, impact.new_schedule))
            /\ UNCHANGED fault
    /\ UNCHANGED <<inputVars, call, impact, errors, scheduleVars, tab1, tab2Vars,
                   roi, recommendation>>

(***************************************************************************)
(* The script                                                               *)
(***************************************************************************)
\* Line 142
StartCurrentSchedule ==
    /\ pc = "L142"
    /\ call' = NewCall(current_principal, current_rate, monthly_payment, Horizon,
                       "current_schedule", "L143")
    /\ pc' = "calculate_loan_schedule"
    /\ UNCHANGED <<inputVars, impact, errors, fault, scheduleVars, tab1, tab2Vars, tab3Vars>>

\* Line 143
StartNewRateSchedule ==
    /\ pc = "L143"
    /\ call' = NewCall(current_principal, new_rate, monthly_payment, Horizon,
                       "new_rate_schedule", "tab1")
    /\ pc' = "calculate_loan_schedule"
    /\ UNCHANGED <<inputVars, impact, errors, fault, scheduleVars, tab1, tab2Vars, tab3Vars>>

\* Lines 153-205: the months until paid and the totals of the current loan.
\* "Months Until Fully Paid" (line 162) is on the page before the totals of
\* lines 170-171 are computed.
Tab1 ==
    /\ pc = "tab1"
    /\ IF ~HasColumn(current_schedule, "Payment")
       THEN /\ pc' = "faulted"
            /\ fault' = Fault(170, "KeyError")
            /\ tab1' = Bound([months |-> Len(current_schedule)])
       ELSE /\ pc' = "tab2"
            /\ tab1' = Bound([months |-> Len(current_schedule),
                              total_payment |-> SeqSum(PaymentColumn(current_schedule)),
                              total_interest |-> SeqSum(InterestColumn(current_schedule))])
            /\ UNCHANGED fault
    /\ UNCHANGED <<inputVars, call, impact, errors, scheduleVars, tab2Vars, tab3Vars>>

\* Lines 215-238: what the lower rate saves.
Tab2Savings ==
    /\ pc = "tab2"
    /\ IF ~HasColumn(current_schedule, "Interest")
       THEN /\ pc' = "faulted"
            /\ fault' = Fault(218, "KeyError")
            /\ UNCHANGED tab2
       ELSE IF ~HasColumn(new_rate_schedule, "Interest")
       THEN /\ pc' = "faulted"
            /\ fault' = Fault(219, "KeyError")
            /\ UNCHANGED tab2
       ELSE /\ pc' = "tab2_breakeven"
            /\ LET current_total_interest == SeqSum(InterestColumn(current_schedule))
                   new_rate_total_interest == SeqSum(InterestColumn(new_rate_schedule))
                   interest_savings == current_total_interest - new_rate_total_interest
                   net_savings == interest_savings - rewriting_fee
               IN tab2' = Bound([current_months |-> Len(current_schedule),
                                 new_rate_months |-> Len(new_rate_schedule),
                                 current_total_interest |-> current_total_interest,
                                 new_rate_total_interest |-> new_rate_total_interest,
                                 interest_savings |-> interest_savings,
                                 net_savings |-> net_savings,
                                 report |-> IF net_savings > 0 THEN "success" ELSE "error"])
            /\ UNCHANGED fault
    /\ UNCHANGED <<inputVars, call, impact, errors, scheduleVars, tab1,
                   monthly_interest_diff, breakeven_months, breakeven_report, vline, tab3Vars>>

\* round(n / d) with a tie rounded up
RoundHalfUp(n, d) == IF 2 * (n % d) < d THEN n \div d ELSE (n \div d) + 1

\* Python's round(n / d) for d > 0: to the nearest integer, a tie to the even one.
Round(n, d) ==
    LET q == n \div d
        r == n % d
    IN IF 2 * r < d THEN q
       ELSE IF 2 * r > d THEN q + 1
       ELSE IF q % 2 = 0 THEN q ELSE q + 1

\* Lines 246-248
MonthlyInterestDiff(principal, rate, rate_new) ==
    Interest(principal, rate) - Interest(principal, rate_new)

\* Line 253
BreakEvenDefined(diff) == diff > 0

\* Lines 240-263: the months to pay off of the two schedules (lines 242-243,
\* from current_months and new_rate_months of tab2) are on the page, then the
\* months until the fee is recovered.
Tab2BreakEven ==
    /\ pc = "tab2_breakeven"
    /\ LET diff == MonthlyInterestDiff(current_principal, current_rate, new_rate)
       IN /\ monthly_interest_diff' = Bound(diff)
          /\ IF BreakEvenDefined(diff)
             THEN /\ breakeven_months' = Bound(Round(rewriting_fee, diff))
                  /\ breakeven_report' =
                         IF Round(rewriting_fee, diff) < ValueOf(tab2).new_rate_months
                         THEN "recovered" ELSE "not recovered"
             ELSE /\ UNCHANGED breakeven_months
                  /\ breakeven_report' = "no savings"
    /\ pc' = "tab2_chart"
    /\ UNCHANGED <<inputVars, call, impact, errors, fault, scheduleVars, tab1, tab2,
                   vline, tab3Vars>>

\* Lines 274-298: the chart, with the break-even marker of lines 292-295.
Tab2Chart ==
    /\ pc = "tab2_chart"
    /\ IF ValueOf(monthly_interest_diff) > 0
       THEN IF breakeven_months = Unbound
            THEN /\ pc' = "faulted"
                 /\ fault' = Fault(293, "NameError")
                 /\ UNCHANGED vline
            ELSE /\ pc' = "tab3"
                 /\ vline' = Bound(ValueOf(breakeven_months))
                 /\ UNCHANGED fault
       ELSE /\ pc' = "tab3"
            /\ UNCHANGED <<vline, fault>>
    /\ UNCHANGED <<inputVars, call, impact, errors, scheduleVars, tab1, tab2,
                   monthly_interest_diff, breakeven_months, breakeven_report, tab3Vars>>

\* Lines 309-310
PrepaymentFee(amount, fee_percent) == (amount * fee_percent) \div Percent
NetPrepayment(amount, fee_percent) == amount - PrepaymentFee(amount, fee_percent)

\* Lines 309-317: the call of calculate_prepayment_impact.
Tab3Prepayment ==
    /\ pc = "tab3"
    /\ impact' = NewImpact(current_principal, current_rate, monthly_payment,
                           NetPrepayment(prepayment_amount, prepayment_fee_percent),
                           Horizon, "tab3_roi")
    /\ pc' = "L120"
    /\ UNCHANGED <<inputVars, call, errors, fault, scheduleVars, tab1, tab2Vars, tab3Vars>>

\* numpy's float64 division n / d as an exact fraction: a zero divisor gives
\* nan (0 / 0) or an infinity with a warning, not an exception.
Divide(n, d) ==
    [num |-> n, den |-> d,
     value |-> IF d # 0 THEN "finite"
               ELSE IF n = 0 THEN "nan" ELSE IF n > 0 THEN "inf" ELSE "-inf"]

\* quotient > bound, as the float comparison decides it (nan compares false)
Exceeds(quotient, bound) ==
    IF quotient.den > 0 THEN quotient.num > bound * quotient.den
    ELSE IF quotient.den < 0 THEN quotient.num < bound * quotient.den
    ELSE quotient.value = "inf"

\* Line 334
Roi(interest_savings, amount) == Divide(interest_savings * Percent, amount)

\* Lines 330-341: the return on the prepaid amount.
Tab3Roi ==
    /\ pc = "tab3_roi"
    /\ LET r == Roi(ValueOf(prepayment_impact).InterestSavings, prepayment_amount)
       IN roi' = Bound([num |-> r.num, den |-> r.den, value |-> r.value,
                        report |-> IF Exceeds(r, current_rate) THEN "success" ELSE "warning"])
    /\ pc' = "tab3_recommend"
    /\ UNCHANGED <<inputVars, call, impact, errors, fault, scheduleVars, tab1, tab2Vars,
                   prepayment_impact, recommendation>>

\* Lines 373-396 without the test that the prepayment saves anything
RecommendUnchecked(prepay_savings, net_savings, amount, principal) ==
    IF prepay_savings > net_savings THEN "prepayment"
    ELSE IF net_savings > 0 /\ net_savings > prepay_savings THEN "rate change"
    ELSE IF amount * 4 > principal THEN "smaller prepayment"
    ELSE "no action"

\* Lines 373-396
Recommend(prepay_savings, net_savings, amount, principal) ==
    IF prepay_savings > net_savings /\ prepay_savings > 0 THEN "prepayment"
    ELSE IF net_savings > 0 /\ net_savings > prepay_savings THEN "rate change"
    ELSE IF amount * 4 > principal THEN "smaller prepayment"
    ELSE "no action"

\* Lines 371-396: the recommendation.
Tab3Recommend ==
    /\ pc = "tab3_recommend"
    /\ recommendation' = Bound(Recommend(ValueOf(prepayment_impact).InterestSavings,
                                         ValueOf(tab2).net_savings,
                                         prepayment_amount, current_principal))
    /\ pc' = "tab3_chart"
    /\ UNCHANGED <<inputVars, call, impact, errors, fault, scheduleVars, tab1, tab2Vars,
                   prepayment_impact, roi>>

\* Lines 407-422: the balance chart of the two schedules of the comparison.
Tab3Chart ==
    /\ pc = "tab3_chart"
    /\ IF /\ {"Month", "Balance"} \subseteq Columns(ValueOf(prepayment_impact).OriginalSchedule)
          /\ {"Month", "Balance"} \subseteq Columns(ValueOf(prepayment_impact).NewSchedule)
       THEN pc' = "tab4" /\ UNCHANGED fault
       ELSE pc' = "faulted" /\ fault' = Fault(407, "KeyError")
    /\ UNCHANGED <<inputVars, call, impact, errors, scheduleVars, tab1, tab2Vars, tab3Vars>>

\* Lines 439-484: the three tables.
Tab4 ==
    /\ pc = "tab4"
    /\ IF /\ HasColumn(current_schedule, "Payment")
          /\ HasColumn(new_rate_schedule, "Payment")
          /\ HasColumn(ValueOf(prepayment_impact).NewSchedule, "Payment")
       THEN pc' = "done" /\ UNCHANGED fault
       ELSE pc' = "faulted" /\ fault' = Fault(443, "KeyError")
    /\ UNCHANGED <<inputVars, call, impact, errors, scheduleVars, tab1, tab2Vars, tab3Vars>>

(***************************************************************************)
(* The program: the script run on the values of the widgets of lines 61-80. *)
(* new_rate is kept within min_value and max_value of line 71.              *)
(***************************************************************************)
Outputs ==
    /\ call = NoCall /\ impact = NoImpact
    /\ errors = <<>> /\ fault = Unbound
    /\ current_schedule = <<>> /\ new_rate_schedule = <<>>
    /\ tab1 = Unbound /\ tab2 = Unbound
    /\ monthly_interest_diff = Unbound /\ breakeven_months = Unbound
    /\ breakeven_report = "none" /\ vline = Unbound
    /\ prepayment_impact = Unbound /\ roi = Unbound /\ recommendation = Unbound

Init ==
    /\ pc = "L142"
    /\ current_principal \in {Money(u) : u \in PrincipalUnits}
    /\ current_rate \in ScriptRates
    /\ new_rate \in {r \in ScriptRates : r >= NewRateMin /\ r <= current_rate + NewRateMaxAbove}
    /\ monthly_payment \in {Money(u) : u \in PaymentUnits}
    /\ rewriting_fee \in {Money(u) : u \in FeeUnits}
    /\ prepayment_amount \in {Money(u) : u \in PrepayUnits}
    /\ prepayment_fee_percent \in FeePercents
    /\ Outputs

Next ==
    \/ StartCurrentSchedule \/ StartNewRateSchedule
    \/ LoopStall \/ LoopAppend \/ Return
    \/ Tab1 \/ Tab2Savings \/ Tab2BreakEven \/ Tab2Chart
    \/ Tab3Prepayment \/ ImpactOriginal \/ ImpactNew \/ ImpactSavings
    \/ Tab3Roi \/ Tab3Recommend \/ Tab3Chart \/ Tab4

Spec == Init /\ [][Next]_vars

(***************************************************************************)
(* calculate_prepayment_impact called on its own, on any arguments: it      *)
(* calls calculate_loan_schedule twice.                                     *)
(***************************************************************************)
InitImpact ==
    /\ pc = "L120"
    /\ current_principal = 0 /\ current_rate = 0 /\ new_rate = 0
    /\ monthly_payment = 0 /\ rewriting_fee = 0
    /\ prepayment_amount = 0 /\ prepayment_fee_percent = 0
    /\ \E r \in DOMAIN UnitRates, principal \in UnitPrincipalUnits,
          payment \in UnitPaymentUnits, prepay \in UnitPrepayUnits, max_months \in 0..Horizon :
          impact = NewImpact(Money(principal), UnitRates[r], Money(payment), Money(prepay),
                             max_months, "returned")
    /\ call = NoCall
    /\ errors = <<>> /\ fault = Unbound
    /\ current_schedule = <<>> /\ new_rate_schedule = <<>>
    /\ tab1 = Unbound /\ tab2 = Unbound
    /\ monthly_interest_diff = Unbound /\ breakeven_months = Unbound
    /\ breakeven_report = "none" /\ vline = Unbound
    /\ prepayment_impact = Unbound /\ roi = Unbound /\ recommendation = Unbound

NextImpact ==
    \/ ImpactOriginal \/ ImpactNew \/ ImpactSavings
    \/ LoopStall \/ LoopAppend \/ Return

SpecImpact == InitImpact /\ [][NextImpact]_vars

\* Every interest of a run is a whole number of 1/Scale units.
ExactArithmetic ==
    InCall /\ LoopCondition(call) =>
        (call.balance * call.annual_rate) % (Percent * MonthsPerYear) = 0

(***************************************************************************)
(* Properties                                                               *)
(***************************************************************************)
Last(s) == s[Len(s)]

\* calculate_loan_schedule is at its return statement (line 115).
AtReturn == InCall /\ LoopDone(call)

\* The payment is above the first month's interest of a positive principal
\* at a rate that is not negative.
CoversFirstInterest(principal, annual_rate, payment) ==
    /\ principal > 0
    /\ annual_rate >= 0
    /\ payment * Percent * MonthsPerYear > principal * annual_rate

\* C1 as stated: a call with principal > 0, rate >= 0 and a payment above the
\* first month's interest returns at most max_months entries, the last one
\* with the loan paid off (balance <= 0).
C1_PaidOffWithinHorizon ==
    (AtReturn /\ CoversFirstInterest(call.principal, call.annual_rate, call.monthly_payment)) =>
        /\ Len(call.schedule) <= call.max_months
        /\ call.schedule # <<>> => Last(call.schedule).Balance <= 0

\* C1 amended: such a call never stalls, appends one entry a month for at
\* most max_months months, can iterate until it is done, and returns a
\* schedule whose last entry has balance <= 0 unless the schedule has
\* max_months entries (the horizon was reached with the loan not paid off).
C1_TerminatesPaidOffOrAtHorizon ==
    (InCall /\ CoversFirstInterest(call.principal, call.annual_rate, call.monthly_payment)) =>
        /\ call.state # "STALLED"
        /\ Len(call.schedule) = call.month
        /\ call.month <= call.max_months
        /\ ~LoopDone(call) => ENABLED LoopAppend
        /\ LoopDone(call) =>
              \/ Len(call.schedule) = call.max_months
              \/ call.schedule # <<>> /\ Last(call.schedule).Balance <= 0

C1_Witness ==
    /\ AtReturn
    /\ CoversFirstInterest(call.principal, call.annual_rate, call.monthly_payment)
    /\ Len(call.schedule) > 1
    /\ Len(call.schedule) < call.max_months
    /\ Last(call.schedule).Balance = 0

\* Both schedules of calculate_prepayment_impact are computed (line 126).
Compared == pc \in {"L127", "returned", "faulted"} /\ impact.ret = "returned"

PrepaymentBelowPrincipal == 0 < impact.prepay_amount /\ impact.prepay_amount < impact.principal

ShorterAndCheaper(alternative, baseline) ==
    /\ Len(alternative) <= Len(baseline)
    /\ SeqSum(InterestColumn(alternative)) <= SeqSum(InterestColumn(baseline))

\* C2 as stated: for every principal, rate, payment and horizon and every
\* prepayment with 0 < prepay_amount < principal, the schedule with the
\* prepayment is no longer than the one without and its interest sums to no
\* more.
C2_PrepaymentReduces ==
    (Compared /\ PrepaymentBelowPrincipal) =>
        ShorterAndCheaper(impact.new_schedule, impact.orig_schedule)

\* C2 amended: the same, for a rate >= 0 and a payment above the first
\* month's interest of the full principal (the schedule without the
\* prepayment does not stall); a comparison that returns then reports
\* Months Saved >= 0 and Interest Savings >= 0.
C2_PrepaymentReducesWhenPayable ==
    (/\ Compared
     /\ PrepaymentBelowPrincipal
     /\ CoversFirstInterest(impact.principal, impact.annual_rate, impact.monthly_payment)) =>
        /\ ShorterAndCheaper(impact.new_schedule, impact.orig_schedule)
        /\ pc = "returned" =>
              /\ ValueOf(prepayment_impact).MonthsSaved >= 0
              /\ ValueOf(prepayment_impact).InterestSavings >= 0

C2_Witness ==
    /\ pc = "returned"
    /\ PrepaymentBelowPrincipal
    /\ CoversFirstInterest(impact.principal, impact.annual_rate, impact.monthly_payment)
    /\ ValueOf(prepayment_impact).MonthsSaved > 0
    /\ ValueOf(prepayment_impact).InterestSavings > 0

\* One iteration of the loop starts in which the principal portion
\* min(monthly_payment - balance * monthly_rate, balance) is <= 0.
StallingMonth ==
    /\ InCall /\ call.state = "ACCUMULATING"
    /\ call.balance > 0 /\ call.month < call.max_months
    /\ Min(call.monthly_payment * Percent * MonthsPerYear - call.balance * call.annual_rate,
           call.balance * Percent * MonthsPerYear) <= 0

\* C3: a month whose principal portion is <= 0 ends the loop at once in
\* STALLED: no entry is appended for it or later, balance and cumulative
\* interest stay as they were, and the failure reported carries that month's
\* interest (balance * monthly_rate) as the minimum payment; a payment that
\* does not cover the first month's interest stalls on month 1 with an
\* empty schedule.
C3_StallStopsAtOnce ==
    /\ [][StallingMonth =>
            /\ call'.state = "STALLED"
            /\ call'.schedule = call.schedule
            /\ call'.balance = call.balance
            /\ call'.total_interest = call.total_interest
            /\ Len(errors') = Len(errors) + 1
            /\ Last(errors').minimum * Percent * MonthsPerYear = call.balance * call.annual_rate
            /\ Last(errors').month = call.month + 1]_vars
    /\ [][(InCall /\ call.state = "STALLED") =>
            /\ pc' = call.ret
            /\ call' = call
            /\ errors' = errors]_vars
    /\ [](AtReturn /\ call.principal > 0 /\ call.max_months > 0
            /\ call.monthly_payment * Percent * MonthsPerYear <= call.principal * call.annual_rate
          => call.state = "STALLED" /\ call.schedule = <<>> /\ call.month = 1)

C3_Witness ==
    /\ AtReturn
    /\ call.state = "STALLED"
    /\ call.month = 1
    /\ call.schedule = <<>>
    /\ call.monthly_payment > 0
    /\ errors # <<>>
    /\ Last(errors).minimum > call.monthly_payment

\* C4: an empty schedule (a stall on month 1, principal == 0, or a prepayment
\* of the whole principal or more) never makes the program fault: the
\* aggregates over it complete normally.
C4_EmptyScheduleNeverFaults == pc # "faulted"

\* C5: the return on the prepayment is divided out only by a prepayment
\* amount that is not zero; for a zero amount no division is made and the
\* return is reported as not applicable.
C5_RoiDivisionGuarded == roi # Unbound => ValueOf(roi).den # 0

\* The first month's interest differential of the two rates, exactly:
\* principal * (current_rate - new_rate) / 100 / 12.
DiffIs(d) == d * Percent * MonthsPerYear = current_principal * (current_rate - new_rate)

Abs(x) == IF x < 0 THEN -x ELSE x

\* m is fee / d rounded to the nearest integer, a tie going to the even one.
IsRounded(m, fee, d) ==
    /\ 2 * Abs(fee - m * d) <= d
    /\ 2 * Abs(fee - m * d) = d => m % 2 = 0

BreakEvenComputed == monthly_interest_diff # Unbound

\* C6: breakeven_months is defined, and is round(fee / monthly_interest_diff),
\* exactly when monthly_interest_diff > 0, which is the case whenever
\* new_rate < current_rate and principal > 0; otherwise nothing is divided,
\* "no savings" is reported and breakeven_months is never read, the marker
\* of the chart included.
C6_BreakEvenGuarded ==
    BreakEvenComputed =>
        LET d == ValueOf(monthly_interest_diff) IN
        /\ DiffIs(d)
        /\ (new_rate < current_rate /\ current_principal > 0) => d > 0
        /\ d > 0 =>
              /\ breakeven_months # Unbound
              /\ IsRounded(ValueOf(breakeven_months), rewriting_fee, d)
              /\ breakeven_report # "no savings"
              /\ pc # "tab2_chart" => vline = breakeven_months
        /\ d <= 0 =>
              /\ breakeven_months = Unbound
              /\ breakeven_report = "no savings"
              /\ vline = Unbound
              /\ fault # Fault(293, "NameError")

\* A fee that is an odd number of half differentials: the rounding is a tie.
C6_Witness ==
    /\ pc = "done"
    /\ ValueOf(monthly_interest_diff) > 0
    /\ 2 * Abs(rewriting_fee - ValueOf(breakeven_months) * ValueOf(monthly_interest_diff))
          = ValueOf(monthly_interest_diff)
    /\ vline = breakeven_months

\* C7: in every schedule of calculate_loan_schedule each entry but the last
\* has Principal + Interest = Payment = monthly_payment, and the Principal
\* fields sum to the principal less the last entry's Balance.
C7_Conservation ==
    (InCall /\ call.schedule # <<>>) =>
        /\ \A i \in 1..(Len(call.schedule) - 1) :
              /\ call.schedule[i].Principal + call.schedule[i].Interest = call.schedule[i].Payment
              /\ call.schedule[i].Payment = call.monthly_payment
        /\ SeqSum(PrincipalColumn(call.schedule))
              = call.principal - Last(call.schedule).Balance

C7_Witness ==
    /\ AtReturn
    /\ Len(call.schedule) > 2
    /\ call.annual_rate > 0
    /\ Last(call.schedule).Balance = 0
    /\ Last(call.schedule).Payment < call.monthly_payment

BalancesFall(schedule, principal) ==
    /\ \A i \in 1..Len(schedule) :
          schedule[i].Balance >= 0 /\ schedule[i].Balance <= principal
    /\ \A i \in 1..(Len(schedule) - 1) : schedule[i + 1].Balance <= schedule[i].Balance

TotalInterestRises(schedule) ==
    \A i \in 1..(Len(schedule) - 1) : schedule[i + 1].TotalInterest >= schedule[i].TotalInterest

\* C8 as stated: in any schedule of calculate_loan_schedule Balance never
\* rises and stays between 0 and the principal, and Total Interest never
\* falls.
C8_Monotonic ==
    InCall => BalancesFall(call.schedule, call.principal) /\ TotalInterestRises(call.schedule)

\* C8 amended: Balance never rises and stays between 0 and the principal in
\* any schedule; Total Interest never falls when the annual rate is >= 0.
C8_MonotonicForRatesNotNegative ==
    InCall =>
        /\ BalancesFall(call.schedule, call.principal)
        /\ call.annual_rate >= 0 => TotalInterestRises(call.schedule)

C8_Witness ==
    /\ AtReturn
    /\ call.annual_rate > 0
    /\ Len(call.schedule) > 2
    /\ call.schedule[2].Balance < call.schedule[1].Balance
    /\ call.schedule[2].TotalInterest > call.schedule[1].TotalInterest

\* C9 as stated: every call returns a schedule whose last entry has
\* balance <= 0 or whose length is max_months.
C9_PaidOffOrFullLength ==
    AtReturn =>
        \/ call.schedule # <<>> /\ Last(call.schedule).Balance <= 0
        \/ Len(call.schedule) = call.max_months

\* C9 amended: every call returns a schedule whose last entry has
\* balance <= 0, or whose length is max_months, or it returns from STALLED
\* with the failure reported, or the principal was <= 0 and the schedule is
\* empty.
C9_PaidOffFullLengthStalledOrEmpty ==
    AtReturn =>
        \/ call.schedule # <<>> /\ Last(call.schedule).Balance <= 0
        \/ Len(call.schedule) = call.max_months
        \/ /\ call.state = "STALLED"
           /\ errors # <<>>
           /\ Len(call.schedule) = call.month - 1
        \/ call.principal <= 0 /\ call.schedule = <<>>

C9_Witness ==
    /\ AtReturn
    /\ call.state = "STALLED"
    /\ call.max_months > 0
    /\ call.schedule = <<>>

Outcomes == {"prepayment", "rate change", "smaller prepayment", "no action"}

\* C10: of the four outcomes exactly one is recommended, in this order: the
\* prepayment when its interest savings P exceed the net savings N of the
\* rate change (interest savings less the fee) and P > 0; else the rate
\* change when N > 0 and N > P; else a smaller prepayment when the amount is
\* above a quarter of the principal; else no action.
C10_RecommendationPolicy ==
    recommendation # Unbound =>
        LET P == SeqSum(InterestColumn(impact.orig_schedule))
                   - SeqSum(InterestColumn(impact.new_schedule))
            N == SeqSum(InterestColumn(current_schedule))
                   - SeqSum(InterestColumn(new_rate_schedule)) - rewriting_fee
            a == P > N /\ P > 0
            b == N > 0 /\ N > P
            c == 4 * prepayment_amount > current_principal
            r == ValueOf(recommendation)
        IN /\ r \in Outcomes
           /\ r = "prepayment" <=> a
           /\ r = "rate change" <=> ~a /\ b
           /\ r = "smaller prepayment" <=> ~a /\ ~b /\ c
           /\ r = "no action" <=> ~a /\ ~b /\ ~c

C10_Witness ==
    /\ pc = "done"
    /\ recommendation = Bound("smaller prepayment")
    /\ ValueOf(prepayment_impact).InterestSavings <= 0
    /\ prepayment_amount > 0

\* The schedule of a loan of this principal ended with the loan paid off: its
\* final balance (the principal itself when no month was needed) is <= 0.
PaidOff(schedule, principal) ==
    IF schedule = <<>> THEN principal <= 0 ELSE Last(schedule).Balance <= 0

\* C11: a schedule whose length is reported as the months until the loan is
\* fully paid off ended in PAID_OFF, never in a stall or at the horizon with
\* a balance left: the current schedule of "Months Until Fully Paid" (line
\* 162), the current and new-rate schedules of "Months to Pay Off" (lines
\* 242-243), and both schedules of the prepayment comparison of "Months Paid
\* Off Early" (line 331).
C11_ReportedLengthIsPayoff ==
    /\ tab1 # Unbound =>
          /\ ValueOf(tab1).months = Len(current_schedule)
          /\ PaidOff(current_schedule, current_principal)
    /\ BreakEvenComputed =>
          /\ ValueOf(tab2).current_months = Len(current_schedule)
          /\ ValueOf(tab2).new_rate_months = Len(new_rate_schedule)
          /\ PaidOff(current_schedule, current_principal)
          /\ PaidOff(new_rate_schedule, current_principal)
    /\ roi # Unbound =>
          /\ ValueOf(prepayment_impact).MonthsSaved
                = Len(impact.orig_schedule) - Len(impact.new_schedule)
          /\ PaidOff(impact.orig_schedule, impact.principal)
          /\ PaidOff(impact.new_schedule, impact.principal - impact.prepay_amount)

\* C12: every entry of a schedule of calculate_loan_schedule has Payment =
\* monthly_payment when the balance after its month is still > 0, and
\* Payment = Principal + Interest when its month brings the balance to 0;
\* only the last entry carries a payment other than monthly_payment, and
\* that trimmed payment is never above monthly_payment.
C12_TrimmedFinalPayment ==
    InCall =>
        \A i \in 1..Len(call.schedule) :
            LET entry == call.schedule[i] IN
            /\ entry.Balance > 0 => entry.Payment = call.monthly_payment
            /\ entry.Balance <= 0 =>
                  /\ entry.Balance = 0
                  /\ entry.Payment = entry.Principal + entry.Interest
                  /\ entry.Payment <= call.monthly_payment
                  /\ i = Len(call.schedule)
            /\ entry.Payment # call.monthly_payment => i = Len(call.schedule)

C12_Witness ==
    /\ AtReturn
    /\ call.annual_rate > 0
    /\ Len(call.schedule) >= 2
    /\ call.schedule[1].Balance > 0
    /\ call.schedule[1].Payment = call.monthly_payment
    /\ Last(call.schedule).Balance = 0
    /\ Last(call.schedule).Payment = Last(call.schedule).Principal + Last(call.schedule).Interest
    /\ Last(call.schedule).Payment < call.monthly_payment

\* C13: at an annual rate >= 0 a call stalls on month 1 or never: a stalled
\* call has appended no entry and returns an empty schedule; once an entry
\* is appended the principal portion of every later month is > 0, and a
\* schedule that is not empty is returned from PAID_OFF or at the horizon.
C13_StallOnlyOnFirstMonth ==
    (InCall /\ call.annual_rate >= 0) =>
        /\ call.state = "STALLED" => call.month = 1 /\ call.schedule = <<>>
        /\ (call.schedule # <<>> /\ call.state = "ACCUMULATING" /\ LoopCondition(call)) =>
              /\ PrincipalPayment(call) > 0
              /\ InterestPayment(call) <= Last(call.schedule).Interest
        /\ (AtReturn /\ call.schedule # <<>>) =>
              /\ call.state # "STALLED"
              /\ \/ Last(call.schedule).Balance <= 0
                 \/ Len(call.schedule) = call.max_months

\* The schedule without the prepayment stalled on month 1 and came back
\* empty; the one with it went on after its first entry and is paid off.
C13_Witness ==
    /\ AtReturn
    /\ call.dest = "new_schedule"
    /\ call.annual_rate > 0
    /\ impact.orig_schedule = <<>>
    /\ Len(errors) = 1 /\ errors[1].month = 1
    /\ Len(call.schedule) >= 3
    /\ call.state = "PAID_OFF"

====
